---- MODULE Spec2Model ----
(***************************************************************************)
(* A model of UQpy's First Order Reliability Method solver                 *)
(* (src/src/UQpy/reliability/taylor_series/FORM.py), of the finite         *)
(* differences of Utilities.gradient, of the Karhunen-Loeve sampler KLE    *)
(* and of BayesModelSelection.  Each has its own variables and its own     *)
(* specification, in which the variables of the others do not change.      *)
(*                                                                         *)
(* Floating point numbers are modelled in fixed point: an integer n stands *)
(* for the real n / One, with One = 10000, so that the default threshold   *)
(* 1e-3 of FORM.run is exactly ten units.  NaN is a value of its own that  *)
(* every arithmetic operation propagates and every comparison rejects, as  *)
(* IEEE 754 does.  Python's None is the empty tuple, and a value v that    *)
(* may be None is <<v>>.                                                   *)
(***************************************************************************)
EXTENDS Integers, Sequences, FiniteSets, TLC

(***************************************************************************)
(* Bounds of the model.                                                    *)
(***************************************************************************)
\* the largest iterations_number a FORM object is configured with
MaxIter == 2
\* run() is called as long as the model evaluator has served fewer than
\* MaxEvals iterations of the object
MaxEvals == 2
\* the largest number of realizations a KLE object holds
MaxSamples == 4
\* the largest number of candidate models of a BayesModelSelection object
MaxModels == 3

(***************************************************************************)
(* Fixed point arithmetic.                                                 *)
(***************************************************************************)
\* the default threshold 1e-3 of FORM.run, in units of 1e-4
DefaultTol == 10
\* the real number 1.0
One == 1000 * DefaultTol
\* the float NaN (0/0); outside the range of every number of the model
NaN == -(10 * One * One)

None == <<>>
Some(v) == <<v>>
IsNone(o) == o = <<>>
Get(o) == o[1]
\* the list an attribute holds, the empty list for None
ListOf(o) == IF IsNone(o) THEN <<>> ELSE Get(o)

IsNaN(a) == a = NaN

\* the quotient of the integers a and b > 0, rounded toward zero
RoundDiv(a, b) == IF a >= 0 THEN a \div b ELSE -((-a) \div b)

FNeg(a) == IF IsNaN(a) THEN NaN ELSE -a
FAdd(a, b) == IF IsNaN(a) \/ IsNaN(b) THEN NaN ELSE a + b
FSub(a, b) == IF IsNaN(a) \/ IsNaN(b) THEN NaN ELSE a - b
FMul(a, b) == IF IsNaN(a) \/ IsNaN(b) THEN NaN ELSE RoundDiv(a * b, One)
FAbs(a) == IF IsNaN(a) THEN NaN ELSE IF a < 0 THEN -a ELSE a

\* a / b.  The only divisor of FORM.run that can be zero is norm_grad, and
\* then dg_u is the zero vector: alpha is 0/0 = nan, and the infinity
\* qoi / 0 is added to the nan beta[k], so that nan is all that is left.
FDiv(a, b) ==
    IF IsNaN(a) \/ IsNaN(b) \/ b = 0 THEN NaN
    ELSE IF b > 0 THEN RoundDiv(a * One, b) ELSE RoundDiv(-(a * One), -b)

\* comparisons: False as soon as one side is nan
FLe(a, b) == ~IsNaN(a) /\ ~IsNaN(b) /\ a <= b
FLt(a, b) == ~IsNaN(a) /\ ~IsNaN(b) /\ a < b

RECURSIVE SqrtBetween(_, _, _)
SqrtBetween(n, lo, hi) ==
    IF lo >= hi THEN lo
    ELSE LET mid == (lo + hi + 1) \div 2
         IN IF mid * mid <= n THEN SqrtBetween(n, mid, hi)
            ELSE SqrtBetween(n, lo, mid - 1)

\* the integer square root of n >= 0
ISqrt(n) == SqrtBetween(n, 0, IF n < 40000 THEN n ELSE 40000)

(***************************************************************************)
(* Vectors of length dimension.                                            *)
(***************************************************************************)
\* self.dimension, the number of random variables of the FORM object
dimension == 2

Dims == 1..dimension

RECURSIVE SumTo(_, _)
SumTo(f, n) == IF n = 0 THEN 0 ELSE f[n] + SumTo(f, n - 1)

HasNaN(v) == \E i \in Dims : IsNaN(v[i])
Zeros == [i \in Dims |-> 0]
VSub(v, w) == [i \in Dims |-> FSub(v[i], w[i])]
VDivS(v, s) == [i \in Dims |-> FDiv(v[i], s)]
VMulS(s, v) == [i \in Dims |-> FMul(s, v[i])]

\* np.linalg.norm of a vector
Norm(v) ==
    IF HasNaN(v) THEN NaN
    ELSE ISqrt(SumTo([i \in Dims |-> v[i] * v[i]], dimension))

\* np.inner of two vectors
Inner(v, w) ==
    IF HasNaN(v) \/ HasNaN(w) THEN NaN
    ELSE RoundDiv(SumTo([i \in Dims |-> v[i] * w[i]], dimension), One)

(***************************************************************************)
(* The collaborators of the solver.                                        *)
(***************************************************************************)
\* the mean and the standard deviation of every marginal distribution
MeanX == One
StdX == 2

\* the probabilistic transform from U to X (Correlate, then Nataf.run with
\* samples_z): independent normal marginals
UtoX(pu) == [i \in Dims |-> FAdd(MeanX, IF IsNaN(pu[i]) THEN NaN ELSE StdX * pu[i])]

\* the probabilistic transform from X to U (Nataf.run with samples_x, then
\* Decorrelate)
XtoU(px) == [i \in Dims |-> IF IsNaN(px[i]) THEN NaN ELSE RoundDiv(px[i] - MeanX, StdX)]

\* the standard normal CDF at -3, -2, ..., 3, in thousandths
CdfKnots == <<1, 23, 159, 500, 841, 977, 999>>

\* stats.norm.cdf: the table above, interpolated linearly
NormCdf(a) ==
    IF IsNaN(a) THEN NaN
    ELSE IF a <= -(3 * One) THEN CdfKnots[1] * DefaultTol
    ELSE IF a >= 3 * One THEN CdfKnots[7] * DefaultTol
    ELSE LET s == a + 3 * One
             i == s \div One
             r == s % One
         IN CdfKnots[i + 1] * DefaultTol
            + RoundDiv((CdfKnots[i + 2] - CdfKnots[i + 1]) * DefaultTol * r, One)

(***************************************************************************)
(* The inputs of the model: configurations, seeds and the values the       *)
(* model evaluator returns.                                                *)
(***************************************************************************)
Unit(i, m) == [j \in Dims |-> IF j = i THEN m ELSE 0]

\* the tolerances a FORM object is configured with
Tol1Values == {None, Some(2 * DefaultTol)}
Tol2Values == {None, Some(DefaultTol)}
Tol3Values == {None, Some(DefaultTol)}

\* the seeds run() is called with
SeedsU == {None, Some(Unit(dimension, DefaultTol))}
SeedsX == {None, Some([i \in Dims |-> MeanX + StdX * 3 * DefaultTol])}

\* what self.derivatives returns in one iteration: the gradient in U and
\* the value of the performance function
Responses ==
    { [dg_u |-> Unit(1, One), qoi |-> DefaultTol],
      [dg_u |-> Unit(1, One), qoi |-> 2 * DefaultTol],
      [dg_u |-> Unit(1, One + DefaultTol), qoi |-> 0],
      [dg_u |-> Unit(dimension, -One), qoi |-> 3 * DefaultTol],
      [dg_u |-> Zeros, qoi |-> DefaultTol] }

\* a model evaluator of which nothing is known: any of Responses
AnyModel == [linear |-> FALSE, grad |-> Zeros, beta |-> 0]

\* model evaluators with a linear performance function in U, given by its
\* gradient and by the distance beta of its limit state from the origin
LinearModels ==
    { [linear |-> TRUE, grad |-> g, beta |-> b] :
        g \in {Unit(1, One), Unit(dimension, -2 * One)},
        b \in {2 * DefaultTol, One} }

\* the analytical design point of a linear model: the point of its limit
\* state that is nearest to the origin
LinearDesignPoint(m) == VMulS(FNeg(m.beta), VDivS(m.grad, Norm(m.grad)))

(***************************************************************************)
(* The state: the configuration and the attributes of one FORM object, the *)
(* local variables of its run() and the position of the caller.            *)
(***************************************************************************)
VARIABLES
    n_iter, tol1, tol2, tol3, runmodel, self_seed_x, self_seed_u,
    beta_form, DesignPoint_U, DesignPoint_X, failure_probability,
    form_iterations, u_record, x_record, g_record, dg_u_record,
    alpha_record, beta_record, error_record, call, x, alpha,
    seed_x, seed_u, k, converged, beta, u, l_dg_u_record, l_u_record,
    l_x_record, l_g_record, l_alpha_record, l_error_record, dg_u, qoi,
    pc, outcome, evals, nconv, passes, nataf_calls, model_calls

config == <<n_iter, tol1, tol2, tol3, runmodel, self_seed_x, self_seed_u>>
\* the results and the history of the object, without self.x and self.alpha
results ==
    <<beta_form, DesignPoint_U, DesignPoint_X, failure_probability,
      form_iterations, u_record, x_record, g_record, dg_u_record,
      alpha_record, beta_record, error_record, call>>
locals ==
    <<seed_x, seed_u, k, converged, beta, u, l_dg_u_record, l_u_record,
      l_x_record, l_g_record, l_alpha_record, l_error_record, dg_u, qoi>>
form_vars ==
    <<config, results, x, alpha, locals, pc, outcome, evals, nconv, passes,
      nataf_calls, model_calls>>

\* the arguments and the local variables of one call of Utilities.gradient,
\* and the points its model evaluator is called at
VARIABLES
    runmodel_object, point, df_step, ii, du_dj, f_evals, gradient_pc,
    gradient_outcome

gradient_vars ==
    <<runmodel_object, point, df_step, ii, du_dj, f_evals, gradient_pc,
      gradient_outcome>>

\* the attributes of one KLE object, the argument of the last call of its
\* run() and the position of the caller
VARIABLES nsamples, samples, xi, kle_arg, kle_pc, kle_outcome

kle_vars == <<nsamples, samples, xi, kle_arg, kle_pc, kle_outcome>>

\* the attributes of one BayesModelSelection object, the arguments of its
\* constructor or of the call of run() that is under way, and the position
\* of the caller
VARIABLES
    candidate_models, prior_probabilities, bayes_estimators, evidences,
    probabilities, sampling_classes, samples_number,
    samples_number_per_chain, ran, bms_pc, bms_outcome

bms_vars ==
    <<candidate_models, prior_probabilities, bayes_estimators, evidences,
      probabilities, sampling_classes, samples_number,
      samples_number_per_chain, ran, bms_pc, bms_outcome>>

vars == <<form_vars, gradient_vars, kle_vars, bms_vars>>

\* RowCount with one row more
RowCountMore == n_iter + 2

\* the number of rows beta, u and dg_u_record are allocated with
RowCount == n_iter + 1

Rows == 0..(RowCount - 1)

\* arr[:n] of an array indexed from 0, as a list
Prefix(arr, n) == [i \in 1..n |-> arr[i - 1]]
\* lst[:n] of a list
Take(lst, n) == SubSeq(lst, 1, IF n < Len(lst) THEN n ELSE Len(lst))

\* the seeds the object is used with: for a linear model, its analytical
\* design point in U or in X
RunSeedsU ==
    IF runmodel.linear THEN {None, Some(LinearDesignPoint(runmodel))}
    ELSE SeedsU
RunSeedsX ==
    IF runmodel.linear THEN {None, Some(UtoX(LinearDesignPoint(runmodel)))}
    ELSE SeedsX

\* what self.derivatives returns at the point uk of U
ModelResponses(uk) ==
    IF runmodel.linear
    THEN { [dg_u |-> runmodel.grad,
            qoi |-> Inner(runmodel.grad,
                          VSub(uk, LinearDesignPoint(runmodel)))] }
    ELSE Responses

(***************************************************************************)
(* FORM.__init__: every output is None.  The call of run() that a seed     *)
(* given to the constructor triggers is the action Construct.              *)
(***************************************************************************)
FormInit(models) ==
    /\ runmodel \in models
    /\ self_seed_x \in RunSeedsX
    /\ self_seed_u \in RunSeedsU
    /\ n_iter \in 1..MaxIter
    /\ tol1 \in Tol1Values
    /\ tol2 \in Tol2Values
    /\ tol3 \in Tol3Values
    /\ beta_form = None /\ DesignPoint_U = None /\ DesignPoint_X = None
    /\ failure_probability = None /\ form_iterations = None
    /\ u_record = None /\ x_record = None /\ g_record = None
    /\ dg_u_record = None /\ alpha_record = None /\ beta_record = None
    /\ error_record = None
    /\ call = None /\ x = None /\ alpha = None
    /\ seed_x = None /\ seed_u = None /\ k = 0 /\ converged = FALSE
    /\ beta = [i \in Rows |-> 0]
    /\ u = [i \in Rows |-> Zeros]
    /\ l_dg_u_record = [i \in Rows |-> Zeros]
    /\ l_u_record = <<>> /\ l_x_record = <<>> /\ l_g_record = <<>>
    /\ l_alpha_record = <<>> /\ l_error_record = <<>>
    /\ dg_u = Zeros /\ qoi = 0
    /\ pc = "init" /\ outcome = "none"
    /\ evals = 0 /\ nconv = 0 /\ passes = 0 /\ nataf_calls = 0 /\ model_calls = 0

\* the local variables of a call of run() that has not entered its loop
ResetLocals ==
    /\ k' = 0 /\ converged' = FALSE
    /\ beta' = [i \in Rows |-> 0]
    /\ u' = [i \in Rows |-> Zeros]
    /\ l_dg_u_record' = [i \in Rows |-> Zeros]
    /\ l_u_record' = <<>> /\ l_x_record' = <<>> /\ l_g_record' = <<>>
    /\ l_alpha_record' = <<>> /\ l_error_record' = <<>>
    /\ dg_u' = Zeros /\ qoi' = 0

(***************************************************************************)
(* run(seed_x, seed_u) up to its loop: the seed in U, or the ValueError.   *)
(***************************************************************************)
\* SeedError without the check: a second seed is ignored
SeedErrorNever(sx, su) == FALSE

\* SeedOf that starts from the origin whatever the seeds are
SeedOfOrigin(sx, su) == Zeros

\* both seeds are given: the ValueError of run()
SeedError(sx, su) == ~IsNone(su) /\ ~IsNone(sx)

\* the seed in U for one seed at most
SeedOf(sx, su) ==
    IF IsNone(su) /\ IsNone(sx) THEN Zeros
    ELSE IF IsNone(su) THEN XtoU(Get(sx))
    ELSE Get(su)

RunEnter(sx, su) ==
    /\ model_calls' = 0
    /\ seed_x' = sx /\ seed_u' = su
    /\ IF SeedError(sx, su)
       THEN /\ outcome' = "ValueError"
            /\ pc' = "idle"
            /\ nataf_calls' = 0
            /\ passes' = 0
            /\ ResetLocals
       ELSE /\ outcome' = "running"
            /\ pc' = "loop"
            /\ nataf_calls' = IF IsNone(su) /\ ~IsNone(sx) THEN 1 ELSE 0
            /\ k' = 0 /\ converged' = FALSE
            /\ beta' = [i \in Rows |-> 0]
            /\ u' = [i \in Rows |-> IF i = 0 THEN SeedOf(sx, su) ELSE Zeros]
            /\ l_dg_u_record' = [i \in Rows |-> Zeros]
            /\ l_g_record' = <<0>>
            /\ l_u_record' = <<>> /\ l_x_record' = <<>>
            /\ l_alpha_record' = <<>> /\ l_error_record' = <<>>
            /\ dg_u' = Zeros /\ qoi' = 0
            /\ passes' = 0
    /\ UNCHANGED <<config, results, x, alpha, evals, nconv>>

\* FORM.__init__ with its seeds: seed_u is looked at first
Construct ==
    /\ pc = "init"
    /\ IF ~IsNone(self_seed_u) THEN RunEnter(None, self_seed_u)
       ELSE IF ~IsNone(self_seed_x) THEN RunEnter(self_seed_x, None)
       ELSE /\ pc' = "idle"
            /\ UNCHANGED <<config, results, x, alpha, locals, outcome,
                           evals, nconv, passes, nataf_calls, model_calls>>
    /\ UNCHANGED <<gradient_vars, kle_vars, bms_vars>>

\* a call of run() by the user of the object
Run ==
    /\ pc = "idle"
    /\ evals < MaxEvals
    /\ \E sx \in RunSeedsX, su \in RunSeedsU : RunEnter(sx, su)
    /\ UNCHANGED <<gradient_vars, kle_vars, bms_vars>>

(***************************************************************************)
(* One iteration of the loop of run().                                     *)
(***************************************************************************)
\* PointX that stays at the point of iteration 0
PointXSeed == IF ~IsNone(seed_x) THEN Get(seed_x) ELSE UtoX(u[0])

\* the point in X of iteration k, and the transforms it takes
PointX ==
    IF k = 0
    THEN IF ~IsNone(seed_x) THEN Get(seed_x) ELSE UtoX(u[0])
    ELSE UtoX(u[k])

PointTransforms == IF k = 0 /\ ~IsNone(seed_x) THEN 0 ELSE 1

\* DirectionCosines without the division by the norm
DirectionCosinesRaw(dg) == dg

\* the direction cosines of a gradient
DirectionCosines(dg) == VDivS(dg, Norm(dg))

\* beta after beta[kk] and beta[kk + 1] are set
BetaUpdate(bb, uu, kk, a, q, norm_grad) ==
    LET bk == FNeg(Inner(uu[kk], a))
    IN [bb EXCEPT ![kk] = bk, ![kk + 1] = FAdd(bk, FDiv(q, norm_grad))]

\* NextIterate without the sign
NextIteratePlus(uu, bb, kk, a) ==
    [uu EXCEPT ![kk + 1] = VMulS(bb[kk + 1], a)]

\* u after u[kk + 1] is set
NextIterate(uu, bb, kk, a) ==
    [uu EXCEPT ![kk + 1] = VMulS(FNeg(bb[kk + 1]), a)]

\* the three errors of iteration kk
Error1(uu, kk) == Norm(VSub(uu[kk + 1], uu[kk]))
Error2(bb, kk) == FAbs(FSub(bb[kk + 1], bb[kk]))
Error3(dd, kk) == Norm(VSub(dd[kk + 1], dd[kk]))

\* ConvergedAll with one criterion enough
ConvergedAllAny(e1, e2, e3) ==
    FLe(e1, Get(tol1)) \/ FLe(e2, Get(tol2)) \/ FLt(e3, Get(tol3))

\* ConvergedDefault with every criterion required
ConvergedDefaultEvery(e1, e2, e3) ==
    FLe(e1, DefaultTol) /\ FLe(e2, DefaultTol) /\ FLt(e3, DefaultTol)

\* Converged3 with equality accepted
Converged3Inclusive(e3) == FLe(e3, Get(tol3))

\* the convergence tests, one for each set of configured tolerances
ConvergedAll(e1, e2, e3) ==
    FLe(e1, Get(tol1)) /\ FLe(e2, Get(tol2)) /\ FLt(e3, Get(tol3))
ConvergedDefault(e1, e2, e3) ==
    FLe(e1, DefaultTol) \/ FLe(e2, DefaultTol) \/ FLt(e3, DefaultTol)
Converged1(e1) == FLe(e1, Get(tol1))
Converged2(e2) == FLe(e2, Get(tol2))
Converged3(e3) == FLt(e3, Get(tol3))
Converged12(e1, e2) == FLe(e1, Get(tol1)) /\ FLe(e2, Get(tol1))
Converged13(e1, e3) == FLe(e1, Get(tol1)) /\ FLt(e3, Get(tol3))
Converged23(e2, e3) == FLe(e2, Get(tol2)) /\ FLt(e3, Get(tol3))

\* Tested that leaves k where it is
TestedStuck(c, entry, ok) ==
    [k |-> c.k,
     converged |-> IF ok THEN TRUE ELSE c.converged,
     errors |-> Append(c.errors, entry)]

\* what a test leaves: one more entry of error_record, and converged set
\* or k advanced.  c is [k, converged, errors]
Tested(c, entry, ok) ==
    [k |-> IF ok THEN c.k ELSE c.k + 1,
     converged |-> IF ok THEN TRUE ELSE c.converged,
     errors |-> Append(c.errors, entry)]

\* the first if statement: all three tolerances are configured
CheckAllThree(c, uu, bb, dd) ==
    IF ~IsNone(tol1) /\ ~IsNone(tol2) /\ ~IsNone(tol3)
    THEN LET e1 == Error1(uu, c.k)
             e2 == Error2(bb, c.k)
             e3 == Error3(dd, c.k)
         IN Tested(c, <<e1, e2, e3>>, ConvergedAll(e1, e2, e3))
    ELSE c

\* the second if statement and its elif branches
CheckSubset(c, uu, bb, dd) ==
    IF IsNone(tol1) /\ IsNone(tol2) /\ IsNone(tol3)
    THEN LET e1 == Error1(uu, c.k)
             e2 == Error2(bb, c.k)
             e3 == Error3(dd, c.k)
         IN Tested(c, <<e1, e2, e3>>, ConvergedDefault(e1, e2, e3))
    ELSE IF ~IsNone(tol1) /\ IsNone(tol2) /\ IsNone(tol3)
    THEN LET e1 == Error1(uu, c.k)
         IN Tested(c, e1, Converged1(e1))
    ELSE IF IsNone(tol1) /\ ~IsNone(tol2) /\ IsNone(tol3)
    THEN LET e2 == Error2(bb, c.k)
         IN Tested(c, e2, Converged2(e2))
    ELSE IF IsNone(tol1) /\ IsNone(tol2) /\ ~IsNone(tol3)
    THEN LET e3 == Error3(dd, c.k)
         IN Tested(c, e3, Converged3(e3))
    ELSE IF ~IsNone(tol1) /\ ~IsNone(tol2) /\ IsNone(tol3)
    THEN LET e1 == Error1(uu, c.k)
             e2 == Error2(bb, c.k)
         IN Tested(c, <<e1, e2>>, Converged12(e1, e2))
    ELSE IF ~IsNone(tol1) /\ IsNone(tol2) /\ ~IsNone(tol3)
    THEN LET e1 == Error1(uu, c.k)
             e3 == Error3(dd, c.k)
         IN Tested(c, <<e1, e3>>, Converged13(e1, e3))
    ELSE IF IsNone(tol1) /\ ~IsNone(tol2) /\ ~IsNone(tol3)
    THEN LET e2 == Error2(bb, c.k)
             e3 == Error3(dd, c.k)
         IN Tested(c, <<e2, e3>>, Converged23(e2, e3))
    ELSE c

(***************************************************************************)
(* The end of run(): what the loop leaves is stored in the object.         *)
(***************************************************************************)
\* Appended that overwrites: every run stores its own entry alone
AppendedOverwrite(attr, entry) == Some(<<entry>>)

\* a result list with one more entry: set by the first call that stores
\* results, extended by the later ones
Appended(attr, entry) ==
    IF IsNone(call) THEN Some(<<entry>>)
    ELSE Some(Append(Get(attr), entry))

\* error_record with the errors of one more run
ErrorsAppended(errors) ==
    IF IsNone(call) THEN Some(errors)
    ELSE Some(Get(error_record) \o errors)

\* FailureProbability without the sign
FailureProbabilityPlus(b) == NormCdf(b)

\* the entry of failure_probability for the reliability index b
FailureProbability(b) == NormCdf(FNeg(b))

EndOfRun(kk, bb, uu, dd, px, lu, lx, lg, la, le) ==
    IF kk > n_iter
    THEN /\ error_record' = Some(le)
         /\ u_record' = Some(<<lu>>)
         /\ x_record' = Some(<<lx>>)
         /\ g_record' = Some(<<lg>>)
         /\ dg_u_record' = Some(<<Prefix(dd, IF kk < n_iter + 1 THEN kk ELSE n_iter + 1)>>)
         /\ alpha_record' = Some(<<la>>)
         /\ UNCHANGED <<beta_form, DesignPoint_U, DesignPoint_X,
                        failure_probability, form_iterations, beta_record,
                        call>>
    ELSE /\ beta_record' = Appended(beta_record, Prefix(bb, kk))
         /\ error_record' = ErrorsAppended(le)
         /\ beta_form' = Appended(beta_form, bb[kk])
         /\ DesignPoint_U' = Appended(DesignPoint_U, uu[kk])
         /\ DesignPoint_X' = Appended(DesignPoint_X, px)
         /\ failure_probability' =
                Appended(failure_probability, FailureProbability(bb[kk]))
         /\ form_iterations' = Appended(form_iterations, kk)
         /\ u_record' = Appended(u_record, Take(lu, kk))
         /\ x_record' = Appended(x_record, Take(lx, kk))
         /\ g_record' = Appended(g_record, lg)
         /\ dg_u_record' = Appended(dg_u_record, Prefix(dd, kk))
         /\ alpha_record' = Appended(alpha_record, la)
         /\ call' = Some(TRUE)

\* one pass through the loop body whose indices k and k + 1 are rows of
\* the arrays
Iterate ==
    /\ pc = "loop"
    /\ k + 1 < RowCount
    /\ \E r \in ModelResponses(u[k]) :
         LET px == PointX
             dd == [l_dg_u_record EXCEPT ![k + 1] = r.dg_u]
             norm_grad == Norm(dd[k + 1])
             a == DirectionCosines(r.dg_u)
             bb == BetaUpdate(beta, u, k, a, r.qoi, norm_grad)
             uu == NextIterate(u, bb, k, a)
             c == CheckSubset(
                      CheckAllThree(
                          [k |-> k, converged |-> converged,
                           errors |-> l_error_record], uu, bb, dd),
                      uu, bb, dd)
             lu == [i \in 1..(Len(l_u_record) + 1) |-> uu]
             lx == Append(l_x_record, px)
             lg == Append(l_g_record, r.qoi)
             la == Append(l_alpha_record, a)
         IN /\ x' = Some(px)
            /\ alpha' = Some(a)
            /\ nataf_calls' = nataf_calls + PointTransforms
            /\ model_calls' = model_calls + 1
            /\ passes' = passes + 1
            /\ evals' = evals + 1
            /\ nconv' = IF c.converged THEN nconv + 1 ELSE nconv
            /\ dg_u' = r.dg_u /\ qoi' = r.qoi
            /\ l_dg_u_record' = dd /\ beta' = bb /\ u' = uu
            /\ l_u_record' = lu /\ l_x_record' = lx /\ l_g_record' = lg
            /\ l_alpha_record' = la /\ l_error_record' = c.errors
            /\ k' = c.k /\ converged' = c.converged
            /\ IF c.converged \/ c.k > n_iter
               THEN /\ pc' = "idle"
                    /\ outcome' = "returned"
                    /\ EndOfRun(c.k, bb, uu, dd, px, lu, lx, lg, la, c.errors)
               ELSE /\ pc' = "loop"
                    /\ UNCHANGED <<outcome, results>>
    /\ UNCHANGED <<config, seed_x, seed_u>>
    /\ UNCHANGED <<gradient_vars, kle_vars, bms_vars>>

\* the pass with k = n_iter: row k + 1 of dg_u_record does not exist, and
\* the assignment to it raises IndexError out of run()
IterateIndexError ==
    /\ pc = "loop"
    /\ k + 1 >= RowCount
    /\ x' = Some(PointX)
    /\ nataf_calls' = nataf_calls + PointTransforms
    /\ model_calls' = model_calls + 1
    /\ passes' = passes + 1
    /\ evals' = evals + 1
    /\ pc' = "idle"
    /\ outcome' = "IndexError"
    /\ seed_x' = None /\ seed_u' = None
    /\ ResetLocals
    /\ UNCHANGED <<config, results, alpha, nconv>>
    /\ UNCHANGED <<gradient_vars, kle_vars, bms_vars>>

(***************************************************************************)
(* Utilities.gradient with order = 'first': central finite differences of  *)
(* a model evaluator at one point.                                         *)
(***************************************************************************)
\* the step of a call without df_step
DefaultStep == One \div 1000

\* what a call is given as runmodel_object, by its type
ModelObjects == {"callable", "RunModel", "NoneType", "str"}

\* the points a gradient is taken at
Points == {Zeros, Unit(1, One)}

\* what a call is given as df_step: nothing, a float, a list of one step
\* and a list of one step for each coordinate
DfSteps ==
    { [type |-> "NoneType", value |-> <<>>],
      [type |-> "float", value |-> <<10 * DefaultStep>>],
      [type |-> "list", value |-> <<2 * DefaultStep>>],
      [type |-> "list", value |-> [i \in Dims |-> i * DefaultStep]] }

\* the values the model evaluator returns
QoiValues == {0, One, 3 * One}

\* df_step as the list of the steps of the coordinates
DfStepList(d) ==
    IF d.type = "NoneType" THEN [i \in Dims |-> DefaultStep]
    ELSE IF d.type = "float" THEN [i \in Dims |-> d.value[1]]
    ELSE IF Len(d.value) = 1 THEN [i \in Dims |-> d.value[1]]
    ELSE d.value

\* ModelAccepted without the check
ModelAcceptedAny(m) == TRUE

\* the model is a callable or a RunModel object
ModelAccepted(m) == m = "callable" \/ m = "RunModel"

\* Perturbed that leaves the point where it is
PerturbedNot(p, i, e) == p

\* a copy of the point p with e added to its coordinate i
Perturbed(p, i, e) == [p EXCEPT ![i] = p[i] + e]

\* the central difference of two values of the model for the step e
FirstDifference(q_plus, q_minus, e) == FDiv(FSub(q_plus, q_minus), 2 * e)

\* a call of gradient that has not been entered
GradientInit ==
    /\ runmodel_object \in ModelObjects
    /\ point \in Points
    /\ df_step \in DfSteps
    /\ ii = 0 /\ du_dj = Zeros /\ f_evals = <<>>
    /\ gradient_pc = "call" /\ gradient_outcome = "none"

\* no call of gradient
GradientOff ==
    /\ runmodel_object = "NoneType"
    /\ point = Zeros
    /\ df_step = [type |-> "NoneType", value |-> <<>>]
    /\ ii = 0 /\ du_dj = Zeros /\ f_evals = <<>>
    /\ gradient_pc = "off" /\ gradient_outcome = "none"

\* gradient up to its loop: the steps, and the check of the model
GradientEnter ==
    /\ gradient_pc = "call"
    /\ df_step' = [type |-> "list", value |-> DfStepList(df_step)]
    /\ IF ~ModelAccepted(runmodel_object)
       THEN gradient_pc' = "done" /\ gradient_outcome' = "RuntimeError"
       ELSE gradient_pc' = "loop" /\ gradient_outcome' = "running"
    /\ UNCHANGED <<runmodel_object, point, ii, du_dj, f_evals>>
    /\ UNCHANGED <<form_vars, kle_vars, bms_vars>>

\* one pass of the loop over the coordinates, and the return after the
\* last one
GradientPass ==
    /\ gradient_pc = "loop"
    /\ ii < dimension
    /\ \E qoi_plus \in QoiValues, qoi_minus \in QoiValues :
         LET eps_i == df_step.value[ii + 1]
             u_i1_j == Perturbed(point, ii + 1, eps_i)
             u_1i_j == Perturbed(point, ii + 1, -eps_i)
         IN /\ f_evals' = f_evals \o <<u_i1_j, u_1i_j>>
            /\ du_dj' = [du_dj EXCEPT
                           ![ii + 1] = FirstDifference(qoi_plus, qoi_minus,
                                                       eps_i)]
    /\ ii' = ii + 1
    /\ IF ii + 1 < dimension
       THEN UNCHANGED <<gradient_pc, gradient_outcome>>
       ELSE gradient_pc' = "done" /\ gradient_outcome' = "returned"
    /\ UNCHANGED <<runmodel_object, point, df_step>>
    /\ UNCHANGED <<form_vars, kle_vars, bms_vars>>

(***************************************************************************)
(* KLE: realizations of a stochastic process whose correlation function    *)
(* is one by one, so that a realization is one number.                     *)
(***************************************************************************)
\* the entry of the correlation function
CorrelationFunction == 4 * One

\* the values np.random.normal draws
XiValues == {-One, One}

\* what nsamples is given as
NSamplesValues == {None} \cup {Some(n) : n \in 1..(MaxSamples \div 2)}

\* _simulate for one column of xi: the eigenvector of a one by one matrix
\* is 1, and the eigenvalue is its entry
Simulate(column) == FMul(ISqrt(CorrelationFunction * One), column)

\* the number of realizations the object holds
Held == Len(ListOf(samples))

\* KLE.__init__ before its call of run()
KleInit ==
    /\ nsamples \in NSamplesValues
    /\ samples = None /\ xi = None /\ kle_arg = None
    /\ kle_pc = "init" /\ kle_outcome = "none"

\* no KLE object
KleOff ==
    /\ nsamples = None
    /\ samples = None /\ xi = None /\ kle_arg = None
    /\ kle_pc = "off" /\ kle_outcome = "none"

\* the number of columns of xi that run(nsamples=n) draws
DrawCount(n) == nsamples

\* run(nsamples=n)
KleRunBody(n) ==
    /\ kle_arg' = n
    /\ IF IsNone(n)
       THEN /\ kle_outcome' = "ValueError"
            /\ UNCHANGED <<samples, xi>>
       ELSE IF IsNone(DrawCount(n))
       THEN /\ kle_outcome' = "TypeError"
            /\ UNCHANGED <<samples, xi>>
       ELSE /\ Held + Get(DrawCount(n)) <= MaxSamples
            /\ \E row \in [1..Get(DrawCount(n)) -> XiValues] :
                 LET new == [j \in 1..Get(DrawCount(n)) |-> Simulate(row[j])]
                 IN IF IsNone(samples)
                    THEN samples' = Some(new) /\ xi' = Some(<<row>>)
                    ELSE /\ samples' = Some(Get(samples) \o new)
                         /\ xi' = Some(Append(Get(xi), row))
            /\ kle_outcome' = "returned"

\* KLE.__init__: run() is called when nsamples is given
KleConstruct ==
    /\ kle_pc = "init"
    /\ kle_pc' = "idle"
    /\ IF ~IsNone(nsamples) THEN KleRunBody(nsamples)
       ELSE UNCHANGED <<samples, xi, kle_arg, kle_outcome>>
    /\ UNCHANGED nsamples
    /\ UNCHANGED <<form_vars, gradient_vars, bms_vars>>

\* a call of run() by the user of the object
KleRun ==
    /\ kle_pc = "idle"
    /\ \E n \in NSamplesValues : KleRunBody(n)
    /\ UNCHANGED <<nsamples, kle_pc>>
    /\ UNCHANGED <<form_vars, gradient_vars, bms_vars>>

(***************************************************************************)
(* BayesModelSelection: evidences and posterior probabilities of the       *)
(* candidate models, and their order.                                      *)
(***************************************************************************)
\* the candidate models, and the estimators created for them, by number
ModelsOf(n) == [i \in 1..n |-> i]

\* prior probabilities given to the constructor: model i has weight i
GivenPrior(n) == [i \in 1..n |-> RoundDiv(2 * i * One, n * (n + 1))]

\* the likelihoods exp(log_likelihood_values) of the samples an estimator
\* has after its run; 0 is a likelihood that has underflowed
LikelihoodSamples == {<<0, One>>, <<One, One>>, <<One, 4 * One>>}

\* the sum of the elements of a list, nan as soon as one of them is
SumOf(lst) ==
    IF \E i \in 1..Len(lst) : IsNaN(lst[i]) THEN NaN ELSE SumTo(lst, Len(lst))

\* _estimate_evidence: the harmonic mean of the likelihoods.  A likelihood
\* of 0 makes 1/likelihood and the mean infinite, and the evidence 0.
EstimateEvidence(likelihoods) ==
    IF \E j \in 1..Len(likelihoods) : likelihoods[j] = 0 THEN 0
    ELSE LET inverses == [j \in 1..Len(likelihoods) |->
                              FDiv(One, likelihoods[j])]
             temp == RoundDiv(SumOf(inverses), Len(likelihoods))
         IN FDiv(One, temp)

\* the evidences multiplied by the prior probabilities
ScaledEvidences(priors, evidence_values) ==
    [i \in 1..Len(evidence_values) |-> FMul(evidence_values[i], priors[i])]

\* _compute_posterior_probabilities
ComputePosteriorProbabilities(priors, evidence_values) ==
    LET scaled_evidences == ScaledEvidences(priors, evidence_values)
    IN [i \in 1..Len(scaled_evidences) |->
            FDiv(scaled_evidences[i], SumOf(scaled_evidences))]

\* the permutations of 1..n
Perms(n) ==
    { f \in [1..n -> 1..n] : \A i, j \in 1..n : f[i] = f[j] => i = j }

\* the order np.argsort puts two values in: nan is last
SortsBefore(a, b) == ~IsNaN(a) /\ (IsNaN(b) \/ a < b)

\* what np.argsort can return: the order of equal values is left to the
\* sorting algorithm
ArgSort(values) ==
    { f \in Perms(Len(values)) :
        \A i, j \in 1..Len(values) :
            i < j => ~SortsBefore(values[f[j]], values[f[i]]) }

\* Reversed that keeps the order
ReversedNot(lst) == lst

\* lst[::-1]
Reversed(lst) == [i \in 1..Len(lst) |-> lst[Len(lst) + 1 - i]]

\* [lst[i] for i in idx]
Reindexed(lst, idx) == [i \in 1..Len(idx) |-> lst[idx[i]]]

\* what samples_number and samples_number_per_chain are given as
SampleNumbers == {None, Some("list")}

\* CountsDiffer without the check
CountsDifferNever(n, m) == FALSE

\* _create_bayes_estimators: the numbers of candidate models and of
\* sampling inputs differ
CountsDiffer(n, m) == n # m

\* NeitherGiven without the check
NeitherGivenNever(sn, spc) == FALSE

\* run(): neither samples_number nor samples_number_per_chain is given
NeitherGiven(sn, spc) == IsNone(sn) /\ IsNone(spc)

\* the arguments of a BayesModelSelection object that is being constructed
BmsInit ==
    /\ \E n \in 2..MaxModels :
         /\ candidate_models = ModelsOf(n)
         /\ sampling_classes \in {n - 1, n}
         /\ prior_probabilities \in {None, Some(GivenPrior(n))}
         /\ ran = [i \in 1..n |-> FALSE]
    /\ samples_number \in SampleNumbers
    /\ samples_number_per_chain \in SampleNumbers
    /\ bayes_estimators = <<>> /\ evidences = <<>> /\ probabilities = <<>>
    /\ bms_pc = "init" /\ bms_outcome = "none"

\* no BayesModelSelection object
BmsOff ==
    /\ candidate_models = <<>> /\ sampling_classes = 0
    /\ prior_probabilities = None /\ ran = <<>>
    /\ samples_number = None /\ samples_number_per_chain = None
    /\ bayes_estimators = <<>> /\ evidences = <<>> /\ probabilities = <<>>
    /\ bms_pc = "off" /\ bms_outcome = "none"

\* run(samples_number=sn, samples_number_per_chain=spc) on an object with the
\* prior probabilities priors and the estimators estimators
BmsRunBody(sn, spc, priors, estimators, old_evidences, old_probabilities) ==
    IF NeitherGiven(sn, spc)
    THEN /\ bms_outcome' = "ValueError"
         /\ ran' = [i \in 1..Len(candidate_models) |-> FALSE]
         /\ evidences' = old_evidences
         /\ probabilities' = old_probabilities
    ELSE \E likelihoods \in [1..Len(estimators) -> LikelihoodSamples] :
           LET evidence_values ==
                   [i \in 1..Len(estimators) |->
                        EstimateEvidence(likelihoods[i])]
           IN /\ bms_outcome' = "returned"
              /\ ran' = [i \in 1..Len(candidate_models) |-> TRUE]
              /\ evidences' = evidence_values
              /\ probabilities' =
                     ComputePosteriorProbabilities(priors, evidence_values)

\* BayesModelSelection.__init__
BmsConstruct ==
    /\ bms_pc = "init"
    /\ LET n == Len(candidate_models)
           priors == IF IsNone(prior_probabilities)
                     THEN [i \in 1..n |-> RoundDiv(One, n)]
                     ELSE Get(prior_probabilities)
       IN /\ prior_probabilities' = Some(priors)
          /\ IF CountsDiffer(n, sampling_classes)
             THEN /\ bms_pc' = "failed"
                  /\ bms_outcome' = "TypeError"
                  /\ UNCHANGED <<bayes_estimators, evidences, probabilities,
                                 ran>>
             ELSE /\ bms_pc' = "idle"
                  /\ bayes_estimators' = ModelsOf(n)
                  /\ IF ~NeitherGiven(samples_number,
                                      samples_number_per_chain)
                     THEN BmsRunBody(samples_number,
                                     samples_number_per_chain, priors,
                                     ModelsOf(n), [i \in 1..n |-> 0],
                                     [i \in 1..n |-> 0])
                     ELSE /\ evidences' = [i \in 1..n |-> 0]
                          /\ probabilities' = [i \in 1..n |-> 0]
                          /\ bms_outcome' = "constructed"
                          /\ UNCHANGED ran
    /\ samples_number' = None /\ samples_number_per_chain' = None
    /\ UNCHANGED <<candidate_models, sampling_classes>>
    /\ UNCHANGED <<form_vars, gradient_vars, kle_vars>>

\* the user of the object calls run() with its arguments
BmsRunEnter ==
    /\ bms_pc = "idle"
    /\ bms_pc' = "run"
    /\ samples_number' \in SampleNumbers
    /\ samples_number_per_chain' \in SampleNumbers
    /\ UNCHANGED <<candidate_models, prior_probabilities, bayes_estimators,
                   evidences, probabilities, sampling_classes, ran,
                   bms_outcome>>
    /\ UNCHANGED <<form_vars, gradient_vars, kle_vars>>

\* the body of that call of run(), up to its return or its exception
BmsRun ==
    /\ bms_pc = "run"
    /\ bms_pc' = "idle"
    /\ BmsRunBody(samples_number, samples_number_per_chain,
                  Get(prior_probabilities), bayes_estimators, evidences,
                  probabilities)
    /\ samples_number' = None /\ samples_number_per_chain' = None
    /\ UNCHANGED <<candidate_models, prior_probabilities, bayes_estimators,
                   sampling_classes>>
    /\ UNCHANGED <<form_vars, gradient_vars, kle_vars>>

\* a call of sort_models() by the user of the object
BmsSortModels ==
    /\ bms_pc = "idle"
    /\ \E ascending \in ArgSort(probabilities) :
         LET sort_idx == Reversed(ascending)
         IN /\ candidate_models' = Reindexed(candidate_models, sort_idx)
            /\ prior_probabilities' =
                   Some(Reindexed(Get(prior_probabilities), sort_idx))
            /\ probabilities' = Reindexed(probabilities, sort_idx)
            /\ evidences' = Reindexed(evidences, sort_idx)
    /\ bms_outcome' = "sorted"
    /\ UNCHANGED <<bayes_estimators, sampling_classes, samples_number,
                   samples_number_per_chain, ran, bms_pc>>
    /\ UNCHANGED <<form_vars, gradient_vars, kle_vars>>

(***************************************************************************)
(* The specifications: one for each function or class.                     *)
(***************************************************************************)
\* a FORM object whose model evaluator returns any of Responses
Init == FormInit({AnyModel}) /\ GradientOff /\ KleOff /\ BmsOff

Next == Construct \/ Run \/ Iterate \/ IterateIndexError

Spec == Init /\ [][Next]_vars

\* a FORM object whose model evaluator is a linear performance function
InitLinear == FormInit(LinearModels) /\ GradientOff /\ KleOff /\ BmsOff

SpecLinear == InitLinear /\ [][Next]_vars

\* the same object when a call of run() that is under way goes on: the
\* model evaluator returns, and the next pass of the loop is made
LoopGoesOn ==
    \/ []<>(pc # "loop")
    \/ []<><<pc = "loop" /\ passes' = passes + 1>>_vars

SpecFair == Spec /\ LoopGoesOn

\* no FORM object
FormOff ==
    /\ FormInit({AnyModel})
    /\ n_iter = 1 /\ tol1 = None /\ tol2 = None /\ tol3 = None
    /\ self_seed_x = None /\ self_seed_u = None

\* one call of Utilities.gradient
InitGradient == FormOff /\ GradientInit /\ KleOff /\ BmsOff

NextGradient == GradientEnter \/ GradientPass

SpecGradient == InitGradient /\ [][NextGradient]_vars

\* one KLE object
InitKle == FormOff /\ GradientOff /\ KleInit /\ BmsOff

NextKle == KleConstruct \/ KleRun

SpecKle == InitKle /\ [][NextKle]_vars

\* one BayesModelSelection object
InitBms == FormOff /\ GradientOff /\ KleOff /\ BmsInit

NextBms == BmsConstruct \/ BmsRunEnter \/ BmsRun \/ BmsSortModels

SpecBms == InitBms /\ [][NextBms]_vars

(***************************************************************************)
(* Properties.                                                             *)
(***************************************************************************)
Last(lst) == lst[Len(lst)]

\* a pass of the current or the last call has run to its end, and its
\* local variables are those of the state
PassDone == passes > 0 /\ outcome \in {"running", "returned"}
\* the value of k in that pass
LastK == passes - 1

\* C1: a call of run() whose iterations never satisfy the convergence
\* criteria returns normally, and the iteration count it reports is
\* iterations_number.
C1_NonConvergenceReturns ==
    (pc = "idle" /\ outcome \in {"returned", "IndexError"} /\ ~converged)
        => /\ outcome = "returned"
           /\ ~IsNone(form_iterations)
           /\ Last(Get(form_iterations)) = n_iter

\* C2: run() called with both seeds raises ValueError before any transform
\* or model evaluation and leaves every result and history attribute
\* unchanged.
C2_BothSeedsRejected ==
    [][(~IsNone(seed_x') /\ ~IsNone(seed_u'))
          => /\ outcome' = "ValueError"
             /\ pc' = "idle"
             /\ nataf_calls' = 0
             /\ model_calls' = 0
             /\ UNCHANGED results]_vars

C2_Witness == outcome = "ValueError" /\ ~IsNone(call)

\* the five result lists
ResultLists ==
    <<beta_form, DesignPoint_U, DesignPoint_X, failure_probability,
      form_iterations>>

\* C3: after n converged calls of run() the five result lists have length
\* n each, and a converged call leaves the earlier entries as they were.
C3_ResultsAppended ==
    /\ [](\A i \in 1..5 : Len(ListOf(ResultLists[i])) = nconv)
    /\ [][nconv' = nconv + 1
            => \A i \in 1..5 :
                 SubSeq(ListOf(ResultLists[i])', 1, nconv)
                     = ListOf(ResultLists[i])]_vars

C3_Witness == nconv = 2 /\ Len(ListOf(beta_form)) = 2

\* the seven history lists
HistoryLists ==
    <<u_record, x_record, g_record, dg_u_record, alpha_record, beta_record,
      error_record>>

\* C4: after n converged calls of run() each of the seven history lists
\* has n entries, one for every converged call.
C4_HistoryOnePerRun ==
    \A i \in 1..7 : Len(ListOf(HistoryLists[i])) = nconv

\* the criteria of the last pass, each with its own tolerance; a criterion
\* that is not configured is met
StepCriterion == IsNone(tol1) \/ FLe(Error1(u, LastK), Get(tol1))
BetaCriterion == IsNone(tol2) \/ FLe(Error2(beta, LastK), Get(tol2))
GradientCriterion ==
    IsNone(tol3) \/ FLt(Error3(l_dg_u_record, LastK), Get(tol3))

Configured == {t \in {tol1, tol2, tol3} : ~IsNone(t)}
NoneConfigured == IsNone(tol1) /\ IsNone(tol2) /\ IsNone(tol3)
AllConfigured == ~IsNone(tol1) /\ ~IsNone(tol2) /\ ~IsNone(tol3)

\* C5: with one or two of the tolerances configured, an iteration is
\* declared converged exactly when every configured criterion is met with
\* its own tolerance.
C5_SubsetConjunction ==
    (PassDone /\ ~NoneConfigured /\ ~AllConfigured)
        => (converged <=> (StepCriterion /\ BetaCriterion /\ GradientCriterion))

\* C6: with no tolerance configured, an iteration is declared converged
\* exactly when at least one of the three errors is within the default
\* threshold.
C6_DefaultDisjunction ==
    (PassDone /\ NoneConfigured)
        => (converged <=>
               \/ FLe(Error1(u, LastK), DefaultTol)
               \/ FLe(Error2(beta, LastK), DefaultTol)
               \/ FLt(Error3(l_dg_u_record, LastK), DefaultTol))

C6_Witness ==
    /\ PassDone /\ NoneConfigured /\ converged
    /\ FLe(Error2(beta, LastK), DefaultTol)
    /\ ~FLt(Error3(l_dg_u_record, LastK), DefaultTol)

\* C7: with the three tolerances configured, an iteration is declared
\* converged exactly when the three errors are within their tolerances; it
\* records one entry of errors and advances k at most once.
C7_AllConjunction ==
    (PassDone /\ AllConfigured)
        => /\ converged <=>
                (StepCriterion /\ BetaCriterion /\ GradientCriterion)
           /\ Len(l_error_record) = passes
           /\ k = IF converged THEN LastK ELSE LastK + 1

C7_Witness ==
    /\ PassDone /\ AllConfigured /\ converged /\ passes = 2
    /\ Len(l_error_record) = 2

\* C8: every entry of failure_probability is the standard normal CDF at
\* minus the entry of beta_form with the same index.
C8_FailureProbability ==
    /\ Len(ListOf(failure_probability)) = Len(ListOf(beta_form))
    /\ \A i \in 1..Len(ListOf(beta_form)) :
         Get(failure_probability)[i] = NormCdf(FNeg(Get(beta_form)[i]))

C8_Witness ==
    /\ Len(ListOf(beta_form)) = 2
    /\ \A i \in 1..2 : ~IsNaN(Get(beta_form)[i]) /\ Get(beta_form)[i] # 0

VNeg(v) == [i \in Dims |-> FNeg(v[i])]

\* C9 as it is stated: the direction cosines of an iteration, stored in
\* alpha and appended to alpha_record, are the negated normalized gradient.
C9_AlphaNegatedGradient ==
    PassDone
        => /\ Get(alpha) = VNeg(VDivS(dg_u, Norm(dg_u)))
           /\ Last(l_alpha_record) = VNeg(VDivS(dg_u, Norm(dg_u)))

\* C9, amended: the direction cosines of an iteration, stored in alpha and
\* appended to alpha_record, are the normalized gradient, not negated.
C9_AlphaNormalizedGradient ==
    PassDone
        => /\ Get(alpha) = VDivS(dg_u, Norm(dg_u))
           /\ Len(l_alpha_record) = passes
           /\ Last(l_alpha_record) = VDivS(dg_u, Norm(dg_u))

C9_Witness ==
    /\ PassDone /\ passes = 2
    /\ \E i \in Dims : ~IsNaN(Get(alpha)[i]) /\ Get(alpha)[i] # 0

\* C10: in the iteration with index k, beta[k] = -(u_k . alpha_k),
\* beta[k + 1] = beta[k] + g(x_k) / ||grad g|| and
\* u_{k + 1} = -beta[k + 1] * alpha_k.
C10_Update ==
    PassDone
        => /\ beta[LastK] = FNeg(Inner(u[LastK], Get(alpha)))
           /\ beta[LastK + 1] = FAdd(beta[LastK], FDiv(qoi, Norm(dg_u)))
           /\ u[LastK + 1] = VMulS(FNeg(beta[LastK + 1]), Get(alpha))

C10_Witness ==
    /\ PassDone /\ passes = 2
    /\ ~IsNaN(beta[LastK + 1]) /\ beta[LastK + 1] # 0
    /\ u[LastK] # Zeros

\* the current call of run() started from the analytical design point of
\* the linear performance function of the object
FromDesignPoint ==
    /\ runmodel.linear
    /\ PassDone
    /\ u[0] = LinearDesignPoint(runmodel)

\* the call has converged in its first pass, with the analytical
\* reliability index as its result
OnePassToBeta ==
    /\ converged /\ outcome = "returned"
    /\ passes = 1 /\ model_calls = 1
    /\ Last(Get(beta_form)) = runmodel.beta

\* C11: a run on a linear performance function whose seed is the
\* analytical design point converges in one pass of the loop, with one
\* gradient evaluation, and its beta_form is the analytical reliability
\* index, whichever subset of the tolerances is configured.
C11_LinearOnePass == FromDesignPoint => OnePassToBeta

\* the configurations without tol3 do converge in the first pass: with
\* tol3 the gradient of the first pass is compared with a row of zeros
LinearOnePassWithoutTol3 ==
    (FromDesignPoint /\ IsNone(tol3)) => OnePassToBeta

\* C12: a FORM object constructed with both seed_x and seed_u is rejected:
\* the constructor raises before any iteration runs.
C12_ConstructorRejectsBothSeeds ==
    (~IsNone(self_seed_x) /\ ~IsNone(self_seed_u))
        => /\ passes = 0 /\ evals = 0
           /\ pc # "init" => outcome = "ValueError"

ConvergedRun == outcome = "returned" /\ converged

\* C14: the entry of form_iterations of a converged run is the number of
\* passes through the loop body that the run has made.
C14_IterationsArePasses ==
    ConvergedRun => Last(Get(form_iterations)) = passes

\* C15: the entries a run appends to u_record and x_record have one
\* element for each iteration of the run, element i is the point of
\* iteration i in U or in X, and the last element is the design point the
\* run reports.
C15_RecordsOnePerIteration ==
    ConvergedRun
        => LET ur == Last(Get(u_record))
               xr == Last(Get(x_record))
           IN /\ Len(ur) = passes /\ Len(xr) = passes
              /\ \A i \in 1..passes :
                    ur[i] = u[i - 1] /\ xr[i] = l_x_record[i]
              /\ ur[passes] = Last(Get(DesignPoint_U))
              /\ xr[passes] = Last(Get(DesignPoint_X))

\* C16: a call of Utilities.gradient with order = 'first' that returns has
\* called the model evaluator 2 * dimension times: for each coordinate i,
\* once at the point with df_step[i] added to coordinate i and once at the
\* point with df_step[i] subtracted from it, the other coordinates being
\* those of the point, and never at the point itself.
C16_FirstOrderEvaluations ==
    gradient_outcome = "returned"
        => /\ Len(f_evals) = 2 * dimension
           /\ \A i \in Dims :
                /\ f_evals[2 * i - 1] =
                       [j \in Dims |-> IF j = i THEN point[j] + df_step.value[i]
                                       ELSE point[j]]
                /\ f_evals[2 * i] =
                       [j \in Dims |-> IF j = i THEN point[j] - df_step.value[i]
                                       ELSE point[j]]
           /\ \A n \in 1..Len(f_evals) : f_evals[n] # point

C16_Witness ==
    /\ gradient_outcome = "returned"
    /\ point # Zeros
    /\ df_step.value[1] # df_step.value[dimension]
    /\ \E i \in Dims : du_dj[i] # 0

\* C17: a call of Utilities.gradient whose runmodel_object is neither a
\* callable nor a RunModel object, None included, raises RuntimeError, and
\* the model evaluator has not been called.
C17_ModelRequired ==
    (runmodel_object \notin {"callable", "RunModel"} /\ gradient_pc # "call")
        => gradient_outcome = "RuntimeError" /\ f_evals = <<>>

C17_Witness ==
    /\ runmodel_object = "NoneType"
    /\ gradient_pc = "done"
    /\ gradient_outcome = "RuntimeError"

\* C18: a call KLE.run(nsamples=n) that returns has appended n
\* realizations to samples, after the realizations samples held before,
\* which are unchanged.
C18_RunAppendsRequested ==
    [][kle_outcome' = "returned"
         => /\ Len(ListOf(samples')) = Held + Get(kle_arg')
            /\ SubSeq(ListOf(samples'), 1, Held) = ListOf(samples)]_vars

\* C19: sort_models leaves probabilities in non-increasing order, and it
\* rearranges candidate_models, prior_probabilities, probabilities and
\* evidences by one permutation.
C19_SortModels ==
    [][bms_outcome' = "sorted"
         => /\ \A i, j \in 1..Len(probabilities') :
                 i < j => ~FLt(probabilities'[i], probabilities'[j])
            /\ \E f \in Perms(Len(candidate_models)) :
                 /\ candidate_models' = Reindexed(candidate_models, f)
                 /\ Get(prior_probabilities') =
                        Reindexed(Get(prior_probabilities), f)
                 /\ probabilities' = Reindexed(probabilities, f)
                 /\ evidences' = Reindexed(evidences, f)]_vars

C19_Witness ==
    /\ bms_outcome = "sorted"
    /\ candidate_models # ModelsOf(Len(candidate_models))
    /\ FLt(probabilities[Len(probabilities)], probabilities[1])
    /\ evidences[1] # evidences[Len(evidences)]
    /\ Get(prior_probabilities)[1] # RoundDiv(One, Len(candidate_models))

\* the absolute value of a - b is at most the tolerance t
Within(a, b, t) == FLe(FAbs(FSub(a, b)), t)

\* C20: after a call of run() that returns, the probabilities are
\* proportional to evidence * prior probability, and their sum is 1, up to
\* the rounding of the divisions.
C20_PosteriorNormalized ==
    bms_outcome = "returned"
        => LET n == Len(probabilities)
               scaled == [i \in 1..n |->
                             FMul(evidences[i], Get(prior_probabilities)[i])]
           IN /\ Within(SumOf(probabilities), One, n)
              /\ \A i, j \in 1..n :
                   Within(probabilities[i] * scaled[j],
                          probabilities[j] * scaled[i],
                          scaled[i] + scaled[j])

C24_CountsMustAgree ==
    (Len(candidate_models) # sampling_classes /\ bms_pc \notin {"init", "off"})
        => /\ bms_outcome = "TypeError" /\ bms_pc = "failed"
           /\ bayes_estimators = <<>>
           /\ \A i \in 1..Len(ran) : ~ran[i]
           /\ evidences = <<>> /\ probabilities = <<>>

C24_Witness ==
    /\ bms_outcome = "TypeError"
    /\ Len(candidate_models) = MaxModels
    /\ sampling_classes = MaxModels - 1
    /\ ~IsNone(prior_probabilities)

\* C26: whatever calls of run() and of sort_models() have been made,
\* bayes_estimators[i] is the estimator that was created for
\* candidate_models[i].
C26_EstimatorsFollowModels ==
    bms_pc \in {"idle", "run"}
        => \A i \in 1..Len(candidate_models) :
             bayes_estimators[i] = candidate_models[i]

\* C22: every call of FORM.run ends, whatever the model evaluator returns,
\* and it has entered the loop body iterations_number + 1 times at most.
C22_RunTerminates ==
    /\ [](passes <= n_iter + 1)
    /\ (pc = "loop") ~> (pc = "idle")

C22_Witness ==
    /\ pc = "idle" /\ passes = n_iter + 1 /\ n_iter = MaxIter
    /\ outcome = "IndexError"

\* C23: after a converged run, the last entry of DesignPoint_U is u[k] of
\* the converging iteration, the last entry of DesignPoint_X is the point
\* in X that was evaluated in that iteration, and the two correspond under
\* the transform: x is the image of u[k], or, in iteration 0 of a run
\* seeded in X, u[0] is the image of x.
C23_DesignPointPair ==
    (ConvergedRun /\ ~IsNone(DesignPoint_X))
        => /\ Last(Get(DesignPoint_U)) = u[k]
           /\ Last(Get(DesignPoint_X)) = Last(l_x_record)
           /\ Len(l_x_record) = k + 1
           /\ x = Some(Last(l_x_record))
           /\ IF k = 0 /\ ~IsNone(seed_x)
              THEN /\ Last(Get(DesignPoint_X)) = Get(seed_x)
                   /\ u[0] = XtoU(Get(seed_x))
              ELSE Last(Get(DesignPoint_X)) = UtoX(u[k])

C23_Witness ==
    /\ ConvergedRun /\ k >= 1 /\ u[k] # u[0]
    /\ Len(Get(DesignPoint_X)) >= 2
    /\ Last(Get(DesignPoint_X)) = UtoX(u[k])
    /\ Last(Get(DesignPoint_X)) # UtoX(u[0])

\* C25: in every iteration of FORM.run that is entered, the indices k and
\* k + 1 used on u, beta and dg_u_record are rows of these arrays,
\* 0..iterations_number, and no call ends in an IndexError.
C25_IndicesInRange ==
    /\ pc = "loop" => (k \in 0..n_iter /\ k + 1 \in 0..n_iter)
    /\ outcome # "IndexError"

\* the entries of the list before are the first entries of the list after
Kept(before, after) ==
    IsNone(before)
        \/ /\ ~IsNone(after)
           /\ Len(Get(before)) <= Len(Get(after))
           /\ SubSeq(Get(after), 1, Len(Get(before))) = Get(before)

\* a step that ends a call of run() without convergence
EndsNotConverged ==
    /\ pc' = "idle" /\ pc \in {"idle", "loop"}
    /\ outcome' \in {"ValueError", "IndexError"}
           \/ (outcome' = "returned" /\ ~converged')

Threshold1 == IF NoneConfigured THEN DefaultTol ELSE Get(tol1)
Threshold2 ==
    IF NoneConfigured THEN DefaultTol
    ELSE IF ~IsNone(tol1) /\ IsNone(tol3) THEN Get(tol1)
    ELSE Get(tol2)
Threshold3 == IF NoneConfigured THEN DefaultTol ELSE Get(tol3)

\* an error below its threshold, and an error below or at its threshold
Below(e, t) == FLt(e, t)
BelowOrAt(e, t) == FLt(e, t) \/ (~IsNaN(e) /\ e = t)

\* the decision of a pass from what each criterion says: any of the three
\* with no tolerance configured, every configured one otherwise
Decision(met1, met2, met3) ==
    IF NoneConfigured THEN met1 \/ met2 \/ met3
    ELSE /\ ~IsNone(tol1) => met1
         /\ ~IsNone(tol2) => met2
         /\ ~IsNone(tol3) => met3

====
